---- MODULE Spec2Model ----
(***************************************************************************)
(* A model of src/critcmp.py: the comparison of Criterion benchmark        *)
(* reports across allocators.                                              *)
(*                                                                         *)
(* Representation.                                                         *)
(*  - A Python str whose characters matter (test names, numeric and unit   *)
(*    tokens) is a sequence of one-character strings; the micro sign of    *)
(*    the unit 'µs' is written "u".                                        *)
(*  - A path is a sequence of tokens: "/" , ".txt", ".bench" and name      *)
(*    tokens that contain none of these.                                   *)
(*  - A Python dict is a sequence of [key, value] records in insertion     *)
(*    order.                                                               *)
(*  - A document is the sequence of its lines, each line reduced to the    *)
(*    parts that the pattern of parse_file looks at.                       *)
(*  - A duration (float seconds in the code) is an exact integer number of *)
(*    nanoseconds: every input is chosen so that its duration is a whole   *)
(*    number of nanoseconds, and float rounding error is not modelled.     *)
(***************************************************************************)
EXTENDS Integers, Sequences, FiniteSets, TLC

VARIABLES
    \* ---- one run of main() ----
    args,           \* args.files: the list of input paths
    graph,          \* args.graph: "none", or whether the given path is writable
    fs,             \* the file system: path -> document, or Unreadable
    pc,             \* position of the run
    allocators,     \* main: allocators
    all_results,    \* main: all_results (dict allocator name -> results dict)
    sorted_tests,   \* main: sorted_tests
    weighted_sums,  \* main: weighted_sums, as returned by print_results
    stdout,         \* the lines printed so far
    chart,          \* the chart file that generate_graph writes
    stderr,         \* the exceptions that ended the run
    exit_code,      \* exit status of the process, -1 while it runs
    \* ---- a single call of a pure function ----
    input,          \* the argument(s) of the call
    output          \* its result

vars == <<args, graph, fs, pc, allocators, all_results, sorted_tests,
          weighted_sums, stdout, stderr, chart, exit_code, input, output>>

runVars == <<args, graph, fs, allocators, all_results, sorted_tests,
             weighted_sums, stdout, stderr, chart, exit_code>>

----------------------------------------------------------------------------
(* Bounds of the model *)

MaxExt == 1         \* characters appended to a weight-table key prefix
MaxLines == 2       \* lines of a document given to parse_file alone
MaxFiles == 2       \* input paths of a run
MaxScore == 12      \* scores given to format_diff / format_pct_diff alone

----------------------------------------------------------------------------
(* Python primitives *)

Range(s) == {s[i] : i \in 1..Len(s)}

\* str.startswith
StartsWith(s, p) == Len(p) <= Len(s) /\ SubSeq(s, 1, Len(p)) = p

\* the characters of the model in code-point order
Alphabet == <<"/", "0", "1", "2", "5", "_", "a", "b", "c", "d", "e", "f", "g", "h",
              "i", "k", "l", "m", "n", "o", "p", "r", "s", "t", "u", "v",
              "w", "x", "y">>

Ord(c) == CHOOSE i \in 1..Len(Alphabet) : Alphabet[i] = c

\* str < str: lexicographic by code point
RECURSIVE StrLess(_, _)
StrLess(a, b) ==
    IF b = <<>> THEN FALSE
    ELSE IF a = <<>> THEN TRUE
    ELSE IF a[1] # b[1] THEN Ord(a[1]) < Ord(b[1])
    ELSE StrLess(Tail(a), Tail(b))

\* dict: key in d
RECURSIVE DictHas(_, _)
DictHas(d, k) ==
    IF d = <<>> THEN FALSE
    ELSE IF d[1].key = k THEN TRUE
    ELSE DictHas(Tail(d), k)

\* dict: d[k] for a key that is present
DictGet(d, k) == d[CHOOSE i \in 1..Len(d) : d[i].key = k].value

\* dict: d.get(k, default)
DictGetOr(d, k, default) == IF DictHas(d, k) THEN DictGet(d, k) ELSE default

\* dict: d[k] = v; an existing key keeps its position, a new key goes last
DictSet(d, k, v) ==
    IF DictHas(d, k)
    THEN [i \in 1..Len(d) |-> IF d[i].key = k THEN [key |-> k, value |-> v] ELSE d[i]]
    ELSE Append(d, [key |-> k, value |-> v])

\* dict: d.keys(), in insertion order
DictKeys(d) == [i \in 1..Len(d) |-> d[i].key]

\* round(n / d) for d > 0, ties to the even integer (Python's round and
\* the rounding of the 'f' format)
RoundHalfEven(n, d) ==
    LET q == n \div d
        r == n % d
    IN  IF 2 * r < d THEN q
        ELSE IF 2 * r > d THEN q + 1
        ELSE IF q % 2 = 0 THEN q ELSE q + 1

----------------------------------------------------------------------------
(* Weights *)

WEIGHTS ==
    << [key |-> <<"l","o","g","/">>, value |-> 10000],
       [key |-> <<"e","v","e","n","t","_","s","t","a","c","k","t","r","a","c","e">>,
        value |-> 1000],
       [key |-> <<"g","i","t","h","u","b","_","e","v","e","n","t","s","/">>,
        value |-> 100],
       [key |-> <<"a","p","a","c","h","e","_","b","u","i","l","d","s","/">>,
        value |-> 100],
       [key |-> <<"t","w","i","t","t","e","r","/">>, value |-> 10],
       [key |-> <<"c","i","t","m","_","c","a","t","a","l","o","g","/">>,
        value |-> 10],
       [key |-> <<"c","a","n","a","d","a","/">>, value |-> 1] >>

DEFAULT_WEIGHT == 100

\* a plausible slip: the key must equal the test name
get_weight_exact(test_name) ==
    LET hits == {i \in 1..Len(WEIGHTS) : WEIGHTS[i].key = test_name}
    IN  IF hits = {} THEN DEFAULT_WEIGHT
        ELSE WEIGHTS[CHOOSE i \in hits : \A j \in hits : i <= j].value

RECURSIVE get_weight_from(_, _)
get_weight_from(test_name, i) ==
    IF i > Len(WEIGHTS) THEN DEFAULT_WEIGHT
    ELSE IF StartsWith(test_name, WEIGHTS[i].key) THEN WEIGHTS[i].value
    ELSE get_weight_from(test_name, i + 1)

get_weight(test_name) == get_weight_from(test_name, 1)

----------------------------------------------------------------------------
(* parse_file *)

\* what the file system holds at a path: a document, or nothing that opens
File(content) == [readable |-> TRUE, content |-> content]
Unreadable == [readable |-> FALSE, content |-> <<>>]

Digits == {"0", "1", "2", "5"}

\* a document line: the test name, whether the 'time: [low unit' annotation
\* follows it, and the tokens that follow the low value and its unit
Line(name, label, num, unit) ==
    [name |-> name, label |-> label, num |-> num, unit |-> unit]

\* [\d.]+ between white space: the whole token
NumMatches(tok) == tok # <<>> /\ \A i \in 1..Len(tok) : tok[i] \in Digits \cup {"."}

\* ([µnms]+): the longest prefix of the token in the character class
RECURSIVE UnitGroup(_)
UnitGroup(tok) ==
    IF tok = <<>> \/ tok[1] \notin {"u", "n", "m", "s"} THEN <<>>
    ELSE <<tok[1]>> \o UnitGroup(Tail(tok))

\* whether the pattern matches the line
Matches(line) ==
    /\ line.name # <<>>
    /\ line.label
    /\ NumMatches(line.num)
    /\ UnitGroup(line.unit) # <<>>

DigitValue(c) == CASE c = "0" -> 0 [] c = "1" -> 1 [] c = "2" -> 2 [] c = "5" -> 5

RECURSIVE DigitsValue(_)
DigitsValue(ds) ==
    IF ds = <<>> THEN 0
    ELSE DigitsValue(SubSeq(ds, 1, Len(ds) - 1)) * 10 + DigitValue(ds[Len(ds)])

RECURSIVE Pow10(_)
Pow10(n) == IF n = 0 THEN 1 ELSE 10 * Pow10(n - 1)

\* float(tok) for a token of digits and dots: the value num / den, or
\* ok = FALSE where Python raises ValueError
ParseFloat(tok) ==
    LET dots == {i \in 1..Len(tok) : tok[i] = "."}
    IN  IF Cardinality(dots) > 1 \/ Cardinality(dots) = Len(tok)
        THEN [ok |-> FALSE, num |-> 0, den |-> 1]
        ELSE IF dots = {}
        THEN [ok |-> TRUE, num |-> DigitsValue(tok), den |-> 1]
        ELSE LET d == CHOOSE i \in dots : TRUE
                 all == SubSeq(tok, 1, d - 1) \o SubSeq(tok, d + 1, Len(tok))
             IN  [ok |-> TRUE, num |-> DigitsValue(all), den |-> Pow10(Len(tok) - d)]

\* nanoseconds per unit: the multipliers dict, scaled from seconds
multipliers ==
    << [key |-> <<"n","s">>, value |-> 1],
       [key |-> <<"u","s">>, value |-> 1000],
       [key |-> <<"m","s">>, value |-> 1000000],
       [key |-> <<"s">>, value |-> 1000000000] >>

\* the multiplier of a unit missing from the dict: 1 second
FallbackMultiplier == 1000000000

\* (num / den) * mult, exact for the inputs of the model
Scale(num, den, mult) ==
    IF mult % den = 0 THEN num * (mult \div den) ELSE (num * mult) \div den

\* a plausible slip: a name seen before keeps its first duration
store_first(results, test_name, time_seconds) ==
    IF DictHas(results, test_name) THEN results
    ELSE DictSet(results, test_name, time_seconds)

\* results[test_name] = time_seconds
store(results, test_name, time_seconds) == DictSet(results, test_name, time_seconds)

\* the body of the loop over the matches, from line i on
RECURSIVE parse_from(_, _, _)
parse_from(content, i, results) ==
    IF i > Len(content) THEN [status |-> "ok", results |-> results]
    ELSE IF ~Matches(content[i]) THEN parse_from(content, i + 1, results)
    ELSE LET test_name == content[i].name
             median_value == ParseFloat(content[i].num)
             unit == UnitGroup(content[i].unit)
             time_seconds == Scale(median_value.num, median_value.den,
                                   DictGetOr(multipliers, unit, FallbackMultiplier))
         IN  IF ~median_value.ok THEN [status |-> "ValueError", results |-> <<>>]
             ELSE parse_from(content, i + 1, store(results, test_name, time_seconds))

parse_content(content) == parse_from(content, 1, <<>>)

\* a plausible slip: a file that cannot be opened reads as an empty report
parse_file_lenient(files, filename) ==
    IF ~files[filename].readable THEN [status |-> "ok", results |-> <<>>]
    ELSE parse_content(files[filename].content)

parse_file(files, filename) ==
    IF ~files[filename].readable
    THEN [status |-> "FileNotFoundError", results |-> <<>>]
    ELSE parse_content(files[filename].content)

----------------------------------------------------------------------------
(* Formatting *)

\* the time in tenths of a millisecond, as the 'ms:.1f' format rounds it
format_time_fixed_width(seconds) == RoundHalfEven(seconds, 100000)

\* the time in the unit chosen, in hundredths of it (tenths for ns)
format_time(seconds) ==
    IF seconds >= 1000000000
    THEN [value |-> RoundHalfEven(seconds, 10000000), decimals |-> 2, unit |-> "s"]
    ELSE IF seconds >= 1000000
    THEN [value |-> RoundHalfEven(seconds, 10000), decimals |-> 2, unit |-> "ms"]
    ELSE IF seconds >= 1000
    THEN [value |-> RoundHalfEven(seconds, 10), decimals |-> 2, unit |-> "us"]
    ELSE [value |-> seconds * 10, decimals |-> 1, unit |-> "ns"]

\* the texts of a diff column: "( base)", "   baseline", "(  N/A )", or a
\* signed whole percentage
DiffBase == [text |-> "base", pct |-> 0]
DiffNA == [text |-> "N/A", pct |-> 0]
DiffPct(p) == [text |-> "pct", pct |-> p]
DiffNone == [text |-> "", pct |-> 0]

\* a plausible slip: the percentage is taken of the current value
format_diff_of_current(baseline, current) ==
    IF baseline = 0 \/ current = 0 THEN DiffNA
    ELSE DiffPct(RoundHalfEven((current - baseline) * 100, current))

\* a plausible slip: no guard against a zero baseline
format_diff_unguarded(baseline, current) ==
    IF baseline = 0 THEN [text |-> "ZeroDivisionError", pct |-> 0]
    ELSE DiffPct(RoundHalfEven((current - baseline) * 100, baseline))

format_diff(baseline, current) ==
    IF baseline = 0 THEN DiffNA
    ELSE LET rounded_pct == RoundHalfEven((current - baseline) * 100, baseline)
         IN  DiffPct(rounded_pct)

\* the ratio is the fraction ratio.num / ratio.den, den > 0
format_pct_diff(ratio) ==
    LET n == (ratio.num - ratio.den) * 100
        d == ratio.den
    IN  IF 2 * n < d /\ -2 * n < d THEN DiffPct(0)
        ELSE DiffPct(RoundHalfEven(n, d))

----------------------------------------------------------------------------
(* Calls of single functions *)

NoRun ==
    /\ args = <<>>
    /\ graph = "none"
    /\ fs = <<>>
    /\ allocators = <<>>
    /\ all_results = <<>>
    /\ sorted_tests = <<>>
    /\ weighted_sums = <<>>
    /\ stdout = <<>>
    /\ stderr = <<>>
    /\ chart = <<>>
    /\ exit_code = -1

\* sequences over S of length at most n
RECURSIVE SeqsUpTo(_, _)
SeqsUpTo(S, n) ==
    IF n = 0 THEN {<<>>}
    ELSE LET shorter == SeqsUpTo(S, n - 1)
         IN  shorter \cup {Append(s, x) : s \in shorter, x \in S}

Keys == {WEIGHTS[i].key : i \in 1..Len(WEIGHTS)}

LogParseHuge == <<"l","o","g","/","p","a","r","s","e","_","h","u","g","e">>

\* test names around the keys of the weight table
WeightNames ==
    UNION {{SubSeq(k, 1, j) \o e : j \in 0..Len(k), e \in SeqsUpTo({"x", "/"}, MaxExt)}
              : k \in Keys}
        \cup {LogParseHuge}

InitWeight ==
    /\ NoRun
    /\ pc = "get_weight:call"
    /\ input \in WeightNames
    /\ output = 0

CallGetWeight ==
    /\ pc = "get_weight:call"
    /\ output' = get_weight(input)
    /\ pc' = "get_weight:return"
    /\ UNCHANGED <<runVars, input>>

NextWeight == CallGetWeight

SpecWeight == InitWeight /\ [][NextWeight]_vars

\* the entries of the weight table whose key is a prefix of the name
MatchingKeys(name) == {i \in 1..Len(WEIGHTS) : StartsWith(name, WEIGHTS[i].key)}

\* C6: get_weight returns the value of the longest key that is a prefix of
\* the test name, which is also the first such key in table order, and the
\* default weight 100 when no key is a prefix; 'log/parse_huge' weighs 10000.
C6_LongestFirstPrefix ==
    pc = "get_weight:return" =>
        /\ MatchingKeys(input) = {} => output = DEFAULT_WEIGHT /\ output = 100
        /\ MatchingKeys(input) # {} =>
             \E i \in MatchingKeys(input) :
                /\ \A j \in MatchingKeys(input) :
                      Len(WEIGHTS[j].key) <= Len(WEIGHTS[i].key) /\ i <= j
                /\ output = WEIGHTS[i].value
        /\ input = LogParseHuge => output = 10000

\* a name that extends a key has been weighed, and not by default
C6_Witness ==
    /\ pc = "get_weight:return"
    /\ input = LogParseHuge
    /\ MatchingKeys(input) # {}
    /\ output # DEFAULT_WEIGHT

----------------------------------------------------------------------------
(* parse_file on one document *)

Foo == <<"f","o","o">>
Bar == <<"b","a","r">>

NumTokens == {<<"0">>, <<"1">>, <<"2",".","0">>, <<"0",".","5">>, <<"1",".","2",".","5">>}

UnitTokens == {<<"n","s">>, <<"u","s">>, <<"m","s">>, <<"s">>, <<"m","m">>,
               <<"s","n">>, <<"s","e","c">>, <<"h">>}

\* the duration of the line is a whole number of nanoseconds
WholeNanoseconds(line) ==
    LET v == ParseFloat(line.num)
        m == DictGetOr(multipliers, UnitGroup(line.unit), FallbackMultiplier)
    IN  v.ok => (m % v.den = 0 \/ v.num % v.den = 0)

ParseLines ==
    {l \in {Line(n, TRUE, v, u) : n \in {Foo, Bar}, v \in NumTokens, u \in UnitTokens} :
        WholeNanoseconds(l)}
        \cup {Line(Bar, FALSE, <<"1">>, <<"n","s">>)}

InitParse ==
    /\ NoRun
    /\ pc = "parse_file:call"
    /\ input \in SeqsUpTo(ParseLines, MaxLines)
    /\ output = 0

CallParseFile ==
    /\ pc = "parse_file:call"
    /\ output' = parse_content(input)
    /\ pc' = "parse_file:return"
    /\ UNCHANGED <<runVars, input>>

NextParse == CallParseFile

SpecParse == InitParse /\ [][NextParse]_vars

\* the lines of the document that the pattern matches
MatchedLines(doc) == {i \in 1..Len(doc) : Matches(doc[i])}

\* the duration in nanoseconds that a matched line states, read with the
\* table of recognized units
StatedDuration(line) ==
    LET v == ParseFloat(line.num)
    IN  Scale(v.num, v.den, DictGet(multipliers, UnitGroup(line.unit)))

RecognizedUnit(line) == DictHas(multipliers, UnitGroup(line.unit))

\* C4: a matched line whose unit is not one of the recognized units makes
\* parse_file abort; its entry is neither dropped nor stored with a default
\* multiplier.
C4_UnknownUnitAborts ==
    (pc = "parse_file:return"
       /\ \E i \in MatchedLines(input) : ~RecognizedUnit(input[i]))
    => output.status # "ok"

\* C7: when a test name appears on several matched lines the returned
\* mapping holds the duration of the last of them, each name appears once in
\* the mapping, and a repeated name raises no error: the call fails only on
\* a numeric token that float() rejects.
C7_LastOccurrenceWins ==
    pc = "parse_file:return" =>
        LET bad == {i \in MatchedLines(input) : ~ParseFloat(input[i].num).ok}
        IN  /\ output.status = "ok" <=> bad = {}
            /\ output.status = "ok" =>
                 /\ \A i, j \in 1..Len(output.results) :
                       output.results[i].key = output.results[j].key => i = j
                 /\ Range(DictKeys(output.results))
                       = {input[i].name : i \in MatchedLines(input)}
                 /\ \A i \in MatchedLines(input) :
                       (RecognizedUnit(input[i])
                          /\ \A j \in MatchedLines(input) :
                                input[j].name = input[i].name => j <= i)
                       => DictGet(output.results, input[i].name)
                             = StatedDuration(input[i])

\* a name on two matched lines with different durations has been parsed
C7_Witness ==
    /\ pc = "parse_file:return"
    /\ output.status = "ok"
    /\ \E i, j \in MatchedLines(input) :
          /\ i < j
          /\ input[i].name = input[j].name
          /\ RecognizedUnit(input[i]) /\ RecognizedUnit(input[j])
          /\ StatedDuration(input[i]) # StatedDuration(input[j])
          /\ DictGet(output.results, input[j].name) = StatedDuration(input[j])

----------------------------------------------------------------------------
(* print_results *)

\* a plausible slip: the table is refused only when no allocator is given
no_data_without_allocators(allocs, tests) == allocs = <<>>

\* not allocators or not sorted_tests
no_data(allocs, tests) == allocs = <<>> \/ tests = <<>>

\* a plausible slip: the last allocator is the baseline
baseline_last(allocs) == allocs[Len(allocs)]

\* baseline_alloc = allocators[0]
baseline_of(allocs) == allocs[1]

\* a plausible slip: a row is printed for the tests that every report has
row_in_every_report(results, baseline_alloc, test) ==
    \A i \in 1..Len(results) : DictHas(results[i].value, test)

\* whether the baseline has the test, so that its row is printed
row_printed(results, baseline_alloc, test) ==
    DictHas(DictGetOr(results, baseline_alloc, <<>>), test)

\* the loop over the allocators within one row, from allocator k on;
\* acc holds the cells of the row and the weighted sums so far
RECURSIVE row_cells(_, _, _, _, _, _)
row_cells(allocs, results, test, baseline_weighted, k, acc) ==
    IF k > Len(allocs) THEN acc
    ELSE LET alloc == allocs[k]
             weight == get_weight(test)
             report == DictGetOr(results, alloc, <<>>)
         IN  IF DictHas(report, test)
             THEN LET raw_time == DictGet(report, test)
                      weighted_time == raw_time * weight
                      diff_str == IF alloc = baseline_of(allocs) THEN DiffBase
                                  ELSE format_diff(baseline_weighted, weighted_time)
                      cell == [alloc |-> alloc, present |-> TRUE,
                               time |-> format_time_fixed_width(weighted_time),
                               diff |-> diff_str]
                  IN  row_cells(allocs, results, test, baseline_weighted, k + 1,
                                [cells |-> Append(acc.cells, cell),
                                 sums |-> DictSet(acc.sums, alloc,
                                            DictGetOr(acc.sums, alloc, 0) + weighted_time)])
             ELSE row_cells(allocs, results, test, baseline_weighted, k + 1,
                            [cells |-> Append(acc.cells,
                                        [alloc |-> alloc, present |-> FALSE,
                                         time |-> 0, diff |-> DiffNone]),
                             sums |-> acc.sums])

\* the loop over sorted_tests, from test t on; acc holds the rows printed,
\* the weighted sums and test_count so far
RECURSIVE test_rows(_, _, _, _, _)
test_rows(allocs, results, tests, t, acc) ==
    IF t > Len(tests) THEN acc
    ELSE LET test == tests[t]
             baseline_alloc == baseline_of(allocs)
         IN  IF ~row_printed(results, baseline_alloc, test)
             THEN test_rows(allocs, results, tests, t + 1, acc)
             ELSE LET baseline_time == DictGet(DictGet(results, baseline_alloc), test)
                      baseline_weighted == baseline_time * get_weight(test)
                      row == row_cells(allocs, results, test, baseline_weighted, 1,
                                       [cells |-> <<>>, sums |-> acc.sums])
                  IN  test_rows(allocs, results, tests, t + 1,
                                [rows |-> Append(acc.rows,
                                            [kind |-> "row", test |-> test,
                                             weight |-> get_weight(test),
                                             cells |-> row.cells]),
                                 sums |-> row.sums,
                                 count |-> acc.count + 1])

\* the SUM row and the final summary table read weighted_sums[alloc], which
\* enters a missing allocator with the sum 0
RECURSIVE touch_sums(_, _, _)
touch_sums(allocs, sums, k) ==
    IF k > Len(allocs) THEN sums
    ELSE touch_sums(allocs,
                    IF DictHas(sums, allocs[k]) THEN sums
                    ELSE DictSet(sums, allocs[k], 0),
                    k + 1)

\* the cells of the SUM row and of the final summary table
sum_cells(allocs, sums, baseline_sum) ==
    [k \in 1..Len(allocs) |->
        [alloc |-> allocs[k], present |-> TRUE,
         time |-> format_time_fixed_width(DictGet(sums, allocs[k])),
         diff |-> IF allocs[k] = baseline_of(allocs) THEN DiffBase
                  ELSE format_diff(baseline_sum, DictGet(sums, allocs[k]))]]

\* the lines printed, without rules and blank lines, and the value returned
print_results(allocs, results, tests) ==
    IF no_data(allocs, tests)
    THEN [lines |-> <<[kind |-> "No data to display."]>>, weighted_sums |-> <<>>]
    ELSE LET body == test_rows(allocs, results, tests, 1,
                               [rows |-> <<>>, sums |-> <<>>, count |-> 0])
             baseline_sum == DictGetOr(body.sums, baseline_of(allocs), 0)
             sums == touch_sums(allocs, body.sums, 1)
         IN  [lines |->
                 <<[kind |-> "header", allocators |-> allocs]>>
                 \o body.rows
                 \o <<[kind |-> "SUM", cells |-> sum_cells(allocs, sums, baseline_sum)],
                      [kind |-> "Tests compared", count |-> body.count],
                      [kind |-> "summary", cells |-> sum_cells(allocs, sums, baseline_sum)]>>,
              weighted_sums |-> sums]

----------------------------------------------------------------------------
(* generate_graph *)

NoChart == [written |-> FALSE, baseline_time_str |-> format_time(0), bars |-> <<>>]

\* max(percentages), as the weighted sum it belongs to
RECURSIVE MaxSum(_, _, _)
MaxSum(allocs, sums, k) ==
    IF k > Len(allocs) THEN 0
    ELSE LET rest == MaxSum(allocs, sums, k + 1)
             mine == DictGetOr(sums, allocs[k], 0)
         IN  IF mine > rest THEN mine ELSE rest

\* bar_height > 35, where bar_height = pct / y_max * chart_height,
\* chart_height = 290 and y_max = max(max_pct * 1.15, 115) = max_pct * 1.15:
\* sum / max_sum * 290 / 1.15 > 35
pct_label_shown(sum, max_sum) == sum * 1160 > 161 * max_sum

\* the chart document: one bar per allocator with its name, time label and
\* percentage label; requires a baseline sum other than 0
chart_of(allocs, sums) ==
    LET baseline == DictGetOr(sums, allocs[1], 0)
        max_sum == MaxSum(allocs, sums, 1)
    IN  [written |-> TRUE,
         baseline_time_str |-> format_time(baseline),
         bars |-> [k \in 1..Len(allocs) |->
                     LET sum == DictGetOr(sums, allocs[k], 0)
                     IN  [allocator |-> allocs[k],
                          time_label |-> format_time(sum),
                          pct_label |-> IF allocs[k] = allocs[1] THEN DiffBase
                                        ELSE format_pct_diff([num |-> sum, den |-> baseline]),
                          pct_shown |-> pct_label_shown(sum, max_sum)]]]

----------------------------------------------------------------------------
(* main *)

\* str.join of the tokens
RECURSIVE Join(_)
Join(tokens) == IF tokens = <<>> THEN "" ELSE tokens[1] \o Join(Tail(tokens))

\* filepath.rsplit('/', 1)[-1]
RECURSIVE LastSegment(_)
LastSegment(path) ==
    IF path = <<>> THEN <<>>
    ELSE IF path[Len(path)] = "/" THEN <<>>
    ELSE Append(LastSegment(SubSeq(path, 1, Len(path) - 1)), path[Len(path)])

\* str.replace(old, ''), on tokens
RECURSIVE Remove(_, _)
Remove(tokens, old) ==
    IF tokens = <<>> THEN <<>>
    ELSE IF tokens[1] = old THEN Remove(Tail(tokens), old)
    ELSE <<tokens[1]>> \o Remove(Tail(tokens), old)

\* filepath.rsplit('/', 1)[-1].replace('.txt', '').replace('.bench', '')
allocator_name(filepath) == Join(Remove(Remove(LastSegment(filepath), ".txt"), ".bench"))

\* the input paths of the model
Paths == { <<"tmp", "/", "default", ".txt">>,
           <<"old", "/", "default", ".bench">>,
           <<"smalloc", ".txt">>,
           <<"unknownalloc">> }

LogX == <<"l","o","g","/","x">>

\* the documents of the model
Docs == { <<Line(Foo, TRUE, <<"2",".","0">>, <<"u","s">>)>>,
          <<Line(Foo, TRUE, <<"1">>, <<"u","s">>),
            Line(LogX, TRUE, <<"1">>, <<"n","s">>)>>,
          <<Line(Foo, TRUE, <<"0">>, <<"n","s">>),
            Line(Bar, TRUE, <<"2">>, <<"n","s">>)>>,
          <<Line(Foo, TRUE, <<"0">>, <<"n","s">>)>>,
          <<Line(Bar, TRUE, <<"1">>, <<"u","s">>)>>,
          <<Line(Bar, FALSE, <<"1">>, <<"n","s">>)>>,
          <<Line(Foo, TRUE, <<"1",".","2",".","5">>, <<"u","s">>)>> }

Contents == {File(d) : d \in Docs} \cup {Unreadable}

\* the key of sorted(all_tests, key=lambda t: (-get_weight(t), t))
KeyLess(t, u) ==
    \/ get_weight(t) > get_weight(u)
    \/ get_weight(t) = get_weight(u) /\ StrLess(t, u)

RECURSIVE Sorted(_)
Sorted(tests) ==
    IF tests = {} THEN <<>>
    ELSE LET first == CHOOSE t \in tests : \A u \in tests \ {t} : KeyLess(t, u)
         IN  <<first>> \o Sorted(tests \ {first})

\* the union of the keys of the reports
AllTests(results) ==
    UNION {Range(DictKeys(results[i].value)) : i \in 1..Len(results)}

Init ==
    /\ args \in SeqsUpTo(Paths, MaxFiles) \ {<<>>}
    /\ graph \in {"none", "writable", "unwritable"}
    /\ fs \in [Range(args) -> Contents]
    /\ pc = "parse"
    /\ allocators = <<>>
    /\ all_results = <<>>
    /\ sorted_tests = <<>>
    /\ weighted_sums = <<>>
    /\ stdout = <<>>
    /\ stderr = <<>>
    /\ chart = NoChart
    /\ exit_code = -1
    /\ input = 0
    /\ output = 0

\* one iteration of the loop over args.files
ParseNext ==
    /\ pc = "parse"
    /\ Len(allocators) < Len(args)
    /\ LET filepath == args[Len(allocators) + 1]
           name == allocator_name(filepath)
           parsed == parse_file(fs, filepath)
       IN  /\ allocators' = Append(allocators, name)
           /\ IF parsed.status = "ok"
              THEN /\ all_results' = DictSet(all_results, name, parsed.results)
                   /\ UNCHANGED <<pc, stderr, exit_code>>
              ELSE /\ pc' = "exit"
                   /\ stderr' = Append(stderr, parsed.status)
                   /\ exit_code' = 1
                   /\ UNCHANGED all_results
    /\ UNCHANGED <<args, graph, fs, sorted_tests, weighted_sums, stdout, chart,
                   input, output>>

\* all_tests and sorted_tests, once the loop is over
SortTests ==
    /\ pc = "parse"
    /\ Len(allocators) = Len(args)
    /\ sorted_tests' = Sorted(AllTests(all_results))
    /\ pc' = "print"
    /\ UNCHANGED <<args, graph, fs, allocators, all_results, weighted_sums, stdout,
                   stderr, chart, exit_code, input, output>>

PrintResults ==
    /\ pc = "print"
    /\ LET printed == print_results(allocators, all_results, sorted_tests)
       IN  /\ stdout' = stdout \o printed.lines
           /\ weighted_sums' = printed.weighted_sums
    /\ pc' = "graph"
    /\ UNCHANGED <<args, graph, fs, allocators, all_results, sorted_tests, stderr,
                   chart, exit_code, input, output>>

\* no --graph option: main returns
NoGraph ==
    /\ pc = "graph"
    /\ graph = "none"
    /\ pc' = "exit"
    /\ exit_code' = 0
    /\ UNCHANGED <<args, graph, fs, allocators, all_results, sorted_tests,
                   weighted_sums, stdout, stderr, chart, input, output>>

GenerateGraph ==
    /\ pc = "graph"
    /\ graph # "none"
    /\ pc' = "exit"
    /\ IF DictGetOr(weighted_sums, allocators[1], 0) = 0
       THEN /\ stdout' = Append(stdout, [kind |-> "Warning: Baseline has no data, skipping graph generation."])
            /\ exit_code' = 0
            /\ UNCHANGED <<chart, stderr>>
       ELSE IF graph = "unwritable"
       THEN /\ stderr' = Append(stderr, "OSError")
            /\ exit_code' = 1
            /\ UNCHANGED <<chart, stdout>>
       ELSE /\ chart' = chart_of(allocators, weighted_sums)
            /\ stdout' = Append(stdout, [kind |-> "Graph saved to"])
            /\ exit_code' = 0
            /\ UNCHANGED stderr
    /\ UNCHANGED <<args, graph, fs, allocators, all_results, sorted_tests,
                   weighted_sums, input, output>>

Next == ParseNext \/ SortTests \/ PrintResults \/ NoGraph \/ GenerateGraph

Spec == Init /\ [][Next]_vars

----------------------------------------------------------------------------
(* Properties of a run *)

\* a file failed to open or to parse
ParseFailed == stderr # <<>> /\ stderr[1] \in {"FileNotFoundError", "ValueError"}

\* every file has been parsed
Loaded == Len(allocators) = Len(args) /\ ~ParseFailed

\* print_results has returned
Printed == pc \in {"graph", "exit"} /\ Loaded

TablePrinted == \E i \in 1..Len(stdout) : stdout[i].kind = "header"

Rows == {i \in 1..Len(stdout) : stdout[i].kind = "row"}

RowTests == {stdout[i].test : i \in Rows}

\* the tests of the report held for an allocator name
ReportTests(alloc) == Range(DictKeys(DictGetOr(all_results, alloc, <<>>)))

\* the tests that every loaded report has
CommonTests == {t \in AllTests(all_results) :
                   \A i \in 1..Len(all_results) : DictHas(all_results[i].value, t)}

CountLines == {i \in 1..Len(stdout) : stdout[i].kind = "Tests compared"}

\* C1 as claimed: the tests compared, in the rows and in the count, are the
\* intersection of the test names of all loaded reports.
C1_ComparedIsIntersection ==
    Printed =>
        /\ RowTests = CommonTests
        /\ \A i \in CountLines : stdout[i].count = Cardinality(CommonTests)

\* C1 as amended: the rows and the count are the tests of the baseline's
\* report, the first argument's; a cell of a row holds a time exactly when
\* that allocator's report has the test, which is when the test enters its
\* weighted sum.
C1_ComparedIsBaselineTests ==
    Printed =>
        /\ RowTests = ReportTests(allocator_name(args[1]))
        /\ Cardinality(Rows) = Cardinality(RowTests)
        /\ \A i \in CountLines : stdout[i].count = Cardinality(RowTests)
        /\ \A i \in Rows :
              /\ Len(stdout[i].cells) = Len(allocators)
              /\ \A k \in 1..Len(allocators) :
                    stdout[i].cells[k].present
                        <=> stdout[i].test \in ReportTests(allocators[k])

\* a row is printed for a test that another report lacks
C1_Witness ==
    /\ Printed
    /\ \E i \in Rows : \E k \in 1..Len(allocators) :
          /\ ~stdout[i].cells[k].present
          /\ stdout[i].test \notin CommonTests

Headers == {i \in 1..Len(stdout) : stdout[i].kind = "header"}

\* the allocators of the cells that are marked as the baseline
BaselineCells ==
    UNION {{stdout[i].cells[k].alloc :
              k \in {k \in 1..Len(stdout[i].cells) : stdout[i].cells[k].diff = DiffBase}}
           : i \in {i \in 1..Len(stdout) : stdout[i].kind = "SUM"}}

\* C2 as claimed: whatever the order of the arguments, 'default' is
\* displayed first and is the baseline, and 'smalloc' is displayed last.
C2_CanonicalOrder ==
    \A i \in Headers :
        LET shown == stdout[i].allocators
        IN  /\ "default" \in Range(shown) =>
                 shown[1] = "default" /\ BaselineCells = {"default"}
            /\ "smalloc" \in Range(shown) => shown[Len(shown)] = "smalloc"

\* C2 as amended: the allocators are displayed in the order of the input
\* file arguments and the baseline is the identifier of the first argument.
C2_ArgumentOrder ==
    \A i \in Headers :
        /\ stdout[i].allocators = [k \in 1..Len(args) |-> allocator_name(args[k])]
        /\ BaselineCells = {allocator_name(args[1])}

\* a table is displayed for smalloc given first and default given second
C2_Witness ==
    /\ Len(args) = 2
    /\ allocator_name(args[1]) = "smalloc"
    /\ allocator_name(args[2]) = "default"
    /\ \E i \in Headers : stdout[i].allocators = <<"smalloc", "default">>
    /\ BaselineCells = {"smalloc"}

\* C3 as claimed: reports without a common test name end the run with exit
\* code 1 and without table rows, sums or chart.
C3_EmptyIntersectionFails ==
    (pc = "exit" /\ Loaded /\ CommonTests = {}) =>
        /\ exit_code = 1
        /\ ~TablePrinted
        /\ ~chart.written

\* C3 as amended: reports that hold no test at all make the run print 'No
\* data to display.' and no table, sums or chart, and it exits with code 0;
\* reports that hold a test get the table, common test or not; a run whose
\* files all parse exits with code 0 unless the chart cannot be written.
C3_NoDataExitsZero ==
    (pc = "exit" /\ Loaded) =>
        /\ AllTests(all_results) = {} =>
              /\ stdout[1].kind = "No data to display."
              /\ ~TablePrinted
              /\ ~chart.written
              /\ exit_code = 0
        /\ AllTests(all_results) # {} => TablePrinted
        /\ exit_code \in {0, 1}
        /\ exit_code = 1 <=>
              (graph = "unwritable" /\ DictGetOr(weighted_sums, allocators[1], 0) # 0)

\* two reports without any test have been compared
C3_Witness ==
    /\ pc = "exit"
    /\ Loaded
    /\ Len(args) = 2
    /\ AllTests(all_results) = {}
    /\ stdout[1].kind = "No data to display."
    /\ exit_code = 0

\* the duration that the baseline's report holds for a test
BaselineTime(test) == DictGet(DictGet(all_results, allocators[1]), test)

\* the baseline's report holds the duration 0 for one of its tests
ZeroBaselineTest ==
    /\ DictHas(all_results, allocators[1])
    /\ \E t \in ReportTests(allocators[1]) : BaselineTime(t) = 0

SumLines == {i \in 1..Len(stdout) : stdout[i].kind \in {"SUM", "summary"}}

\* C5 as claimed: a baseline duration of 0 for a compared test makes the run
\* fail before anything is printed.
C5_ZeroBaselineAborts ==
    (pc = "exit" /\ Loaded /\ ZeroBaselineTest) =>
        /\ exit_code = 1
        /\ stdout = <<>>
        /\ ~chart.written

\* C5 as amended: for a test whose baseline duration is 0 the row is printed
\* and shows the placeholder '(  N/A )' for every other allocator that has
\* the test; a baseline sum of 0 gives the placeholder in the SUM row and
\* the summary, and generate_graph then prints a warning and writes no
\* chart; the run exits with code 0.
C5_ZeroBaselinePlaceholder ==
    Printed =>
        /\ \A i \in Rows : \A k \in 1..Len(stdout[i].cells) :
              LET cell == stdout[i].cells[k]
              IN  (cell.present /\ cell.alloc # allocators[1]) =>
                     (cell.diff = DiffNA <=> BaselineTime(stdout[i].test) = 0)
        /\ \A i \in SumLines : \A k \in 1..Len(stdout[i].cells) :
              LET cell == stdout[i].cells[k]
              IN  cell.alloc # allocators[1] =>
                     (cell.diff = DiffNA <=> DictGet(weighted_sums, allocators[1]) = 0)
        /\ (pc = "exit" /\ DictGetOr(weighted_sums, allocators[1], 0) = 0) =>
              /\ ~chart.written
              /\ exit_code = 0
              /\ graph # "none" =>
                    stdout[Len(stdout)].kind
                        = "Warning: Baseline has no data, skipping graph generation."

\* a row with a zero baseline duration shows the placeholder for another
\* allocator, and the run has ended normally
C5_Witness ==
    /\ pc = "exit"
    /\ Loaded
    /\ exit_code = 0
    /\ \E i \in Rows : \E k \in 1..Len(stdout[i].cells) :
          /\ BaselineTime(stdout[i].test) = 0
          /\ stdout[i].cells[k].present
          /\ stdout[i].cells[k].alloc # allocators[1]
          /\ stdout[i].cells[k].diff = DiffNA

\* C9: every input file is opened and parsed, in argument order, before
\* anything is printed or the chart is written; a run with an input path
\* that cannot be opened never gets to print, and ends with a failure
\* without table output and without chart.
C9_ParseBeforeOutput ==
    /\ allocators = [k \in 1..Len(allocators) |-> allocator_name(args[k])]
    /\ (stdout # <<>> \/ chart.written \/ pc \in {"print", "graph"}) =>
          /\ Len(allocators) = Len(args)
          /\ \A k \in 1..Len(args) :
                /\ fs[args[k]].readable
                /\ DictHas(all_results, allocator_name(args[k]))
    /\ (\E k \in 1..Len(args) : ~fs[args[k]].readable) =>
          /\ pc \in {"parse", "exit"}
          /\ stdout = <<>>
          /\ ~chart.written
          /\ pc = "exit" => exit_code = 1 /\ stderr # <<>>

\* a run has ended on an unreadable second file after a first file with tests
C9_Witness ==
    /\ pc = "exit"
    /\ Len(args) = 2
    /\ fs[args[1]].readable
    /\ ~fs[args[2]].readable
    /\ AllTests(all_results) # {}
    /\ exit_code = 1
    /\ stdout = <<>>

RECURSIVE SumOver(_, _)
SumOver(tests, alloc) ==
    IF tests = {} THEN 0
    ELSE LET t == CHOOSE t \in tests : TRUE
         IN  DictGet(DictGet(all_results, alloc), t) * get_weight(t)
                + SumOver(tests \ {t}, alloc)

\* C10: after print_results the weighted sum of each allocator identifier is
\* the sum of duration x weight over the tests that both the baseline's
\* report and its own report have, each test counted once, also when two
\* paths give the same identifier.
C10_SumsCountOnce ==
    (Printed /\ TablePrinted) =>
        \A a \in Range(allocators) :
            DictGet(weighted_sums, a)
                = SumOver(ReportTests(allocators[1]) \cap ReportTests(a), a)

\* C10 restricted to runs whose paths give different identifiers: there the
\* sums are as claimed
C10_DistinctIdentifiers ==
    (Printed /\ TablePrinted
       /\ \A i, j \in 1..Len(allocators) : allocators[i] = allocators[j] => i = j)
    => \A a \in Range(allocators) :
            DictGet(weighted_sums, a)
                = SumOver(ReportTests(allocators[1]) \cap ReportTests(a), a)

----------------------------------------------------------------------------
(* format_diff and format_pct_diff on one pair of scores *)

InitDiff ==
    /\ NoRun
    /\ pc = "diff:call"
    /\ input \in [baseline : 0..MaxScore, current : 0..MaxScore]
    /\ output = DiffNone

\* the diff column of the table
CallFormatDiff ==
    /\ pc = "diff:call"
    /\ output' = format_diff(input.baseline, input.current)
    /\ pc' = "format_diff:return"
    /\ UNCHANGED <<runVars, input>>

\* the label of a bar: generate_graph has returned early on a baseline of 0
CallFormatPctDiff ==
    /\ pc = "diff:call"
    /\ input.baseline # 0
    /\ output' = format_pct_diff([num |-> input.current, den |-> input.baseline])
    /\ pc' = "format_pct_diff:return"
    /\ UNCHANGED <<runVars, input>>

NextDiff == CallFormatDiff \/ CallFormatPctDiff

SpecDiff == InitDiff /\ [][NextDiff]_vars

\* p is (current - baseline) / baseline * 100 rounded to `scale` units per
\* percent: no multiple of 1/scale is nearer to it
NearestPct(p, scale) ==
    LET exact == (input.current - input.baseline) * 100 * scale
        err == p * input.baseline - exact
    IN  2 * err <= input.baseline /\ -2 * err <= input.baseline

\* C8 as claimed: the percentage against a baseline other than 0 is shown
\* rounded to one decimal in the table and to a whole number in chart labels.
C8_TableOneDecimal ==
    /\ (pc = "format_diff:return" /\ input.baseline # 0) =>
          output.text = "pct" /\ NearestPct(output.pct * 10, 10)
    /\ pc = "format_pct_diff:return" =>
          output.text = "pct" /\ NearestPct(output.pct, 1)

\* C8 as amended: the percentage against a baseline other than 0 is shown
\* rounded to a whole number in the table and in chart labels alike; a
\* baseline of 2 and a candidate of 1 give -50%.
C8_WholePercent ==
    /\ (pc = "format_diff:return" /\ input.baseline # 0) =>
          output.text = "pct" /\ NearestPct(output.pct, 1)
    /\ pc = "format_pct_diff:return" =>
          output.text = "pct" /\ NearestPct(output.pct, 1)
    /\ (pc \in {"format_diff:return", "format_pct_diff:return"}
          /\ input.baseline = 2 /\ input.current = 1) => output.pct = -50

\* a percentage that is no whole number has been shown in the table
C8_Witness ==
    /\ pc = "format_diff:return"
    /\ input.baseline = 3
    /\ input.current = 4
    /\ output = DiffPct(33)

====
